---- MODULE Spec2Model ----
(***************************************************************************)
(* A model of the two scripts of the repository.                           *)
(*                                                                         *)
(*   _scanproblem.py  runs ESLint, parses its JSON output and writes a     *)
(*                    report to logs.txt           (specification SpecLint)*)
(*   aa.py            get_signatures: labels of one file (SpecSig)         *)
(*                    generate_map: the walk of a tree   (SpecMap)         *)
(*                                                                         *)
(* Text is a sequence of one-character strings wherever the code looks     *)
(* inside it (slices, replace, count, splitext); a JSON value is a tagged  *)
(* record [t |-> kind, v |-> payload].                                     *)
(***************************************************************************)
EXTENDS Integers, Sequences, FiniteSets, TLC

VARIABLES
    \* ---- _scanproblem.py ----
    pc,             \* position of main: start, prepare, run, analyze, parse,
                    \* results, entry, msg, crash, done, propagated
    log,            \* the content of logs.txt: a sequence of written chunks
    calls,          \* the write_log calls main has made, in order
    landed,         \* per call, what of its chunk reached the file:
                    \* "whole", "part" or "none"
    writable,       \* whether logs.txt can (still) be written in this run
    faults,         \* how many statements of the run have failed so far
    platform,       \* os.name (the runs modelled are on a POSIX system)
    result,         \* subprocess.run's result, or NoResult
    data,           \* json.loads' value, or NoData
    problem_files,  \* the filtered, sorted records
    ei,             \* index of the entry the report loop is at
    mi,             \* index of the message the inner loop is at
    exc,            \* the exception raised inside main, or "none"
    \* ---- aa.py: get_signatures on one file ----
    sig_pc,         \* "call" before the call, "returned" after
    sig_file,       \* the file: [readable, content]
    sig_out,        \* what get_signatures returned
    \* ---- aa.py: generate_map ----
    map_pc,         \* "walk" while os.walk has directories left, "returned" after
    map_tree,       \* the directory tree on disk
    start_path,     \* generate_map's argument
    walk_stack,     \* os.walk's pending directories (top first)
    output_lines,   \* the lines appended so far
    line_of,        \* per line, the node of the tree it was rendered for
    visited,        \* nodes os.walk yielded or the file loop handled
    scanned         \* files passed to get_signatures

lint_vars == <<pc, log, calls, landed, writable, faults, platform, result, data,
               problem_files, ei, mi, exc>>
sig_vars == <<sig_pc, sig_file, sig_out>>
map_vars == <<map_pc, map_tree, start_path, walk_stack, output_lines,
              line_of, visited, scanned>>
vars == <<lint_vars, sig_vars, map_vars>>

\* ------------------------------------------------------------------ bounds

\* Most class declarations in a file, and most declarations of each other kind.
MaxClasses == 12
MaxOthers == 1
\* Deepest nesting of directories below the start directory.
MaxDepth == 2
\* Longest list of count-only records the linter reports, beside the two examples.
MaxRecords == 1
\* How many statements of one run may fail while logs.txt can be written: a
\* print that raises, a write_log call whose open or write raises.  The calls
\* that fail because logs.txt cannot be written, from the start of the run or
\* from a failure that lasts, are not counted: there are as many as the run makes.
MaxFaults == 1

\* ------------------------------------------------------------ text helpers

Min(a, b) == IF a <= b THEN a ELSE b

\* s[:n]
Slice(s, n) == SubSeq(s, 1, Min(n, Len(s)))

\* s[n+1:]
Drop(s, n) == IF n >= Len(s) THEN <<>> ELSE SubSeq(s, n + 1, Len(s))

\* s.startswith(p)
StartsWith(s, p) == Len(p) <= Len(s) /\ SubSeq(s, 1, Len(p)) = p

\* str.replace(old, new) for a one-character old
ReplaceChar(s, old, new) == [i \in DOMAIN s |-> IF s[i] = old THEN new ELSE s[i]]

\* ------------------------------------------------------------ JSON values

Num(n) == [t |-> "num", v |-> n]
Str(s) == [t |-> "str", v |-> s]
List(s) == [t |-> "list", v |-> s]
Null == [t |-> "null"]
Missing == [t |-> "missing"]
\* A JSON object with the keys the script reads; an absent key holds Missing.
Obj(fp, ec, ms) == [t |-> "obj", filePath |-> fp, errorCount |-> ec, messages |-> ms]
Msg(ln, rl, tx) == [t |-> "msg", line |-> ln, ruleId |-> rl, message |-> tx]

\* dict.get(key, default)
Get(val, default) == IF val.t = "missing" THEN default ELSE val

\* Iterating a value as Python does: [ok, items]; numbers and null do not iterate,
\* a string yields its characters and a dict its keys.
Keys(val) ==
    IF val.t = "obj"
    THEN (IF val.filePath.t = "missing" THEN <<>> ELSE <<Str(<<"f">>)>>)
         \o (IF val.errorCount.t = "missing" THEN <<>> ELSE <<Str(<<"e">>)>>)
         \o (IF val.messages.t = "missing" THEN <<>> ELSE <<Str(<<"m">>)>>)
    ELSE (IF val.line.t = "missing" THEN <<>> ELSE <<Str(<<"l">>)>>)
         \o (IF val.ruleId.t = "missing" THEN <<>> ELSE <<Str(<<"r">>)>>)
         \o (IF val.message.t = "missing" THEN <<>> ELSE <<Str(<<"m">>)>>)

Iter(val) ==
    CASE val.t = "list" -> [ok |-> TRUE, items |-> val.v]
      [] val.t = "str" -> [ok |-> TRUE, items |-> [i \in DOMAIN val.v |-> Str(<<val.v[i]>>)]]
      [] val.t \in {"obj", "msg"} -> [ok |-> TRUE, items |-> Keys(val)]
      [] OTHER -> [ok |-> FALSE, items |-> <<>>]

\* --------------------------------------------------- _scanproblem.py: log

\* The chunks main writes (the f-strings of lines 23-107).
Title == [k |-> "title"]
Generated == [k |-> "generated"]
Rule == [k |-> "rule"]
RunLocation(cwd) == [k |-> "location", cwd |-> cwd]
Command(cmd) == [k |-> "command", cmd |-> cmd]
StderrBlock(text) == [k |-> "stderr", text |-> text]
EmptyError == [k |-> "empty"]
NotJson == [k |-> "notjson"]
Excerpt(text) == [k |-> "excerpt", text |-> text]
Found(n) == [k |-> "found", n |-> n]
Banner(path, count) == [k |-> "banner", path |-> path, count |-> count]
Diag(line, rule, text) == [k |-> "diag", line |-> line, rule |-> rule, text |-> text]
Crash(e) == [k |-> "crash", e |-> e]

\* A chunk in the file, tagged with the run that wrote it; and what is in the
\* file of a chunk whose write failed part-way: some of its first characters.
Chunk(by, content) == [by |-> by, c |-> content, part |-> FALSE]
Fragment(by, content) == [by |-> by, c |-> content, part |-> TRUE]

\* What an earlier run left in logs.txt.
OldLog == <<Chunk("earlier", Title), Chunk("earlier", Generated), Chunk("earlier", Rule),
            Chunk("earlier", Found(0))>>

\* How open() and write() of one write_log call can end: written; open() raised
\* (the file is untouched); open() succeeded (mode 'w' has truncated) and the
\* write raised with nothing in the file, or with part of the text in the file.
Outcomes == {"ok", "open_fail", "write_fail", "partial"}

\* What logs.txt holds after lines 14-15.
write_log(file, content, mode, outcome) ==
    CASE outcome = "open_fail" -> file
      [] outcome = "write_fail" -> IF mode = "w" THEN <<>> ELSE file
      [] outcome = "partial" -> IF mode = "w"
                                THEN <<Fragment("this", content)>>
                                ELSE Append(file, Fragment("this", content))
      [] OTHER -> IF mode = "w"
                  THEN <<Chunk("this", content)>>
                  ELSE Append(file, Chunk("this", content))

\* What of the chunk is in the file after the call.
Landed(outcome) ==
    CASE outcome = "ok" -> "whole"
      [] outcome = "partial" -> "part"
      [] OTHER -> "none"

\* What a print call can raise when stdout does not take the text: an encoding
\* without the emoji (UnicodeEncodeError), a closed stream (ValueError), a pipe
\* whose reader is gone (BrokenPipeError), a full or failing device (OSError).
print_errors == {"UnicodeEncodeError", "ValueError", "BrokenPipeError", "OSError"}

Call(content, mode) == [content |-> content, mode |-> mode]

\* The statements of main that reach outside: print(...) and write_log(...).
print_call == [op |-> "print"]
write_log_call(content, mode) == [op |-> "write", call |-> Call(content, mode)]

\* How one statement can end when logs.txt can (w) or cannot be written: raised
\* is "none" or the class of the exception that leaves it.  A print returns or
\* raises.  write_log returns when the write succeeded; when it failed, the
\* handler of line 16 prints, and write_log returns if that print did and raises
\* what it raised otherwise.  A failure either passes or lasts (the disk is
\* full, the directory is gone): then no later call of the run succeeds.
Ends(stmt, w) ==
    IF stmt.op = "print"
    THEN {[io |-> "none", raised |-> r, lasts |-> FALSE] : r \in {"none"} \cup print_errors}
    ELSE IF w
    THEN {[io |-> "ok", raised |-> "none", lasts |-> FALSE]}
         \cup {[io |-> o, raised |-> r, lasts |-> l] :
                  o \in Outcomes \ {"ok"}, r \in {"none"} \cup print_errors,
                  l \in BOOLEAN}
    ELSE {[io |-> "open_fail", raised |-> r, lasts |-> TRUE] :
             r \in {"none"} \cup print_errors}

\* The failures in one end of a statement that count against MaxFaults: a print
\* that raises, a write_log call that fails on a file that could be written.
Cost(e, w) ==
    (IF w /\ e.io \in Outcomes \ {"ok"} THEN 1 ELSE 0)
    + (IF e.raised # "none" THEN 1 ELSE 0)

\* The statements stmts run in order from the file content file, with at most
\* left failures: every way it can go, as [file, calls, landed, raised, used,
\* writable].  The first statement that raises ends the run of the statements.
RECURSIVE Exec(_, _, _, _)
Exec(file, stmts, left, w) ==
    IF stmts = <<>>
    THEN {[file |-> file, calls |-> <<>>, landed |-> <<>>, raised |-> "none",
           used |-> 0, writable |-> w]}
    ELSE LET stmt == stmts[1]
         IN UNION {
              IF Cost(e, w) > left THEN {}
              ELSE IF stmt.op = "print"
              THEN (IF e.raised # "none"
                    THEN {[file |-> file, calls |-> <<>>, landed |-> <<>>,
                           raised |-> e.raised, used |-> Cost(e, w), writable |-> w]}
                    ELSE Exec(file, Tail(stmts), left, w))
              ELSE LET f == write_log(file, stmt.call.content, stmt.call.mode, e.io)
                       still == w /\ ~e.lasts
                   IN IF e.raised # "none"
                      THEN {[file |-> f, calls |-> <<stmt.call>>,
                             landed |-> <<Landed(e.io)>>,
                             raised |-> e.raised, used |-> Cost(e, w),
                             writable |-> still]}
                      ELSE {[file |-> r.file, calls |-> <<stmt.call>> \o r.calls,
                             landed |-> <<Landed(e.io)>> \o r.landed,
                             raised |-> r.raised, used |-> Cost(e, w) + r.used,
                             writable |-> r.writable] :
                               r \in Exec(f, Tail(stmts), left - Cost(e, w), still)}
              : e \in Ends(stmt, w)}

\* main runs stmts: the ways it can go.
Runs(stmts) == Exec(log, stmts, MaxFaults - faults, writable)

\* The file and the record of the calls after the run r of some statements.
Commit(r) ==
    /\ log' = r.file
    /\ calls' = calls \o r.calls
    /\ landed' = landed \o r.landed
    /\ faults' = faults + r.used
    /\ writable' = r.writable

\* ------------------------------------------- _scanproblem.py: the inputs

\* result.stdout[:500] (line 75)
ExcerptLen == 500

Letters == <<"a", "b", "c">>
\* A text of n characters that differ from place to place.
Pattern(n) == [i \in 1..n |-> Letters[(i % 3) + 1]]

NotJsonText == <<"n", "o", "t", " ", "j", "s", "o", "n">>
\* Stands for the text of a document json.loads accepts.
JsonText == <<"[", "]">>

\* The working directory, and a report path "/w/f<i>".
Cwd == <<"/", "w">>
Digits == <<"1", "2", "3", "4", "5", "6", "7", "8", "9">>
PathOf(i) == Cwd \o <<"/", "f", Digits[i]>>

MsgText == <<"n", "o", "\n", "x">>
GoodMsg(i) == Msg(Num(i), Str(<<"r">>), Str(MsgText))

\* A record as ESLint writes it: errorCount c, and one message when c > 0.
CountRec(i, c) ==
    Obj(Str(PathOf(i)), Num(c), List(IF c > 0 THEN <<GoodMsg(i)>> ELSE <<>>))

Counts == {0, 1, 7}
SpecExample == <<3, 0, 7, 1>>
\* Two records of equal count around a larger one.
TieExample == <<1, 7, 1>>
CountLists ==
    UNION {[1..n -> Counts] : n \in 0..MaxRecords} \cup {SpecExample, TieExample}
RecordsOf(cs) == List([i \in DOMAIN cs |-> CountRec(i, cs[i])])

\* Records that depart from ESLint's shape, one way each.
OddRecords == {
    Obj(Missing, Num(1), List(<<GoodMsg(1)>>)),                \* no filePath
    Obj(Num(5), Num(1), Missing),                              \* filePath not a string, no messages
    Obj(Str(<<"/", "x">>), Num(1), List(<<Msg(Missing, Missing, Missing)>>)),
    Obj(Str(PathOf(9)), Missing, List(<<>>)),                  \* no errorCount
    Obj(Str(PathOf(9)), Str(<<"2">>), List(<<>>)),             \* errorCount a string
    Obj(Str(PathOf(9)), Num(1), List(<<Msg(Num(1), Null, Num(5))>>)),  \* message text a number
    Obj(Str(PathOf(9)), Num(1), List(<<Num(5)>>)),             \* a message that is no object
    Obj(Str(PathOf(9)), Num(1), Null),                         \* messages null
    Obj(Str(PathOf(9)), Num(0), Null),                         \* the same, filtered out
    Obj(Str(<<"/", "w", "/", "/", "a", "/", ".", ".", "/", "f", "8", "/">>),
        Num(1), List(<<>>)),                                   \* a path that is not normalised
    Null                                                       \* a record that is no object
}
\* Each alone, and some after a record that is reported before they are reached.
OddLists ==
    {List(<<r>>) : r \in OddRecords}
    \cup {List(<<CountRec(1, 7), r>>) :
             r \in {Null,
                    Obj(Missing, Num(1), List(<<GoodMsg(1)>>)),
                    Obj(Str(PathOf(9)), Num(1), List(<<Num(5)>>))}}

\* Documents that are valid JSON and no list.
NonLists == {Null, Num(5), Str(<<>>), Str(<<"x">>),
             Obj(Missing, Missing, Missing), CountRec(1, 1)}

Parsed(val) == [r |-> "ok", v |-> val]
Raises(e) == [r |-> "raise", e |-> e]

\* What the linter can print: the text, whether it is a valid JSON document,
\* and what json.loads makes of it.
Stdouts ==
    {[text |-> <<>>, valid |-> FALSE, loads |-> Raises("JSONDecodeError")]}
    \cup {[text |-> tx, valid |-> FALSE, loads |-> Raises("JSONDecodeError")] :
             tx \in {NotJsonText, Pattern(ExcerptLen - 1), Pattern(ExcerptLen),
                     Pattern(ExcerptLen + 1)}}
    \* the parser gives up on its own limits before it has read the text to the
    \* end: RecursionError on deep nesting ('[' a hundred thousand times, closed
    \* or not), ValueError on an integer of 5000 digits (alone, or before garbage)
    \cup {[text |-> Pattern(ExcerptLen + 1), valid |-> v, loads |-> Raises(e)] :
             v \in BOOLEAN, e \in {"RecursionError", "ValueError"}}
    \cup {[text |-> JsonText, valid |-> TRUE, loads |-> Parsed(RecordsOf(cs))] :
             cs \in CountLists}
    \cup {[text |-> JsonText, valid |-> TRUE, loads |-> Parsed(l)] :
             l \in OddLists \cup NonLists}

Stderrs == {<<>>, <<"w", "a", "r", "n">>}

\* The exit code of the shell command: ESLint's 0, 1 and 2, and the shell's 127
\* when npx is not installed.  main prints it and never looks at it.
ReturnCodes == {0, 1, 2, 127}

Results == [returncode : ReturnCodes, stdout : Stdouts, stderr : Stderrs]

NoResult == [returncode |-> 0,
             stdout |-> [text |-> <<>>, valid |-> FALSE, loads |-> Raises("unset")],
             stderr |-> <<>>]
NoData == [t |-> "unset"]

\* ------------------------------------------ _scanproblem.py: main's steps

\* The built-in exception classes that do not derive from Exception.
BaseExceptionsOnly == {"BaseException", "BaseExceptionGroup", "KeyboardInterrupt",
                       "SystemExit", "GeneratorExit"}

\* except Exception (line 105): it takes every class but those.
Catches(e) == e \notin BaseExceptionsOnly

\* An exception raised inside the try block of main.
Raise(e) ==
    /\ pc' = IF Catches(e) THEN "crash" ELSE "propagated"
    /\ exc' = e

\* An exception raised in main outside the try block (lines 20-25), or inside
\* its handler (lines 106-107): no handler is left to take it.
Propagate(e) ==
    /\ pc' = "propagated"
    /\ exc' = e

\* A header that is appended like every other chunk.
HeaderModeAppend == "a"

\* The mode of the first write_log call (line 23).
HeaderMode == "w"

CommandFor(os_name) ==
    IF os_name = "nt" THEN "npx.cmd eslint . --quiet --format=json"
    ELSE "npx eslint . --quiet --format=json"

\* Lines 20-25: the first print and the header.
main_init_log ==
    /\ pc = "start"
    /\ \E r \in Runs(<<print_call, write_log_call(Title, HeaderMode),
                       write_log_call(Generated, "a"), write_log_call(Rule, "a")>>) :
          /\ Commit(r)
          /\ IF r.raised # "none" THEN Propagate(r.raised)
             ELSE pc' = "prepare" /\ exc' = exc
    /\ UNCHANGED <<platform, result, data, problem_files, ei, mi>>
    /\ UNCHANGED <<sig_vars, map_vars>>

\* Lines 27-40: the working directory and the command.
main_prepare ==
    /\ pc = "prepare"
    /\ \/ \E r \in Runs(<<print_call, write_log_call(RunLocation(Cwd), "a"),
                          print_call,
                          write_log_call(Command(CommandFor(platform)), "a")>>) :
             /\ Commit(r)
             /\ IF r.raised # "none" THEN Raise(r.raised)
                ELSE pc' = "run" /\ exc' = exc
       \/ \* os.getcwd() raises: the directory is gone
          /\ Raise("FileNotFoundError")
          /\ UNCHANGED <<log, calls, landed, writable, faults>>
    /\ UNCHANGED <<platform, result, data, problem_files, ei, mi>>
    /\ UNCHANGED <<sig_vars, map_vars>>

\* Lines 43-52: subprocess.run and the print of the return code.
main_run ==
    /\ pc = "run"
    /\ \/ \E res \in Results, r \in Runs(<<print_call>>) :
            /\ result' = res
            /\ Commit(r)
            /\ IF r.raised # "none" THEN Raise(r.raised)
               ELSE pc' = "analyze" /\ exc' = exc
       \/ \* the shell cannot be started
          /\ Raise("OSError")
          /\ UNCHANGED <<result, log, calls, landed, writable, faults>>
    /\ UNCHANGED <<platform, data, problem_files, ei, mi>>
    /\ UNCHANGED <<sig_vars, map_vars>>

\* An empty stdout that is reported and then parsed all the same.
AfterAnalyzeNoReturn(stdout_len) == "parse"

\* Lines 63-66: the return after the "empty output" line.
AfterAnalyze(stdout_len) == IF stdout_len = 0 THEN "done" ELSE "parse"

\* Lines 54-66: stderr is logged; an empty stdout ends the run.
main_analyze ==
    /\ pc = "analyze"
    /\ LET stdout_len == Len(result.stdout.text)
           stderr_len == Len(result.stderr)
       IN \E r \in Runs(<<print_call>>
                        \o (IF stderr_len > 0
                            THEN <<print_call, write_log_call(StderrBlock(result.stderr), "a")>>
                            ELSE <<>>)
                        \o (IF stdout_len = 0
                            THEN <<print_call, write_log_call(EmptyError, "a")>>
                            ELSE <<>>)) :
             /\ Commit(r)
             /\ IF r.raised # "none" THEN Raise(r.raised)
                ELSE pc' = AfterAnalyze(stdout_len) /\ exc' = exc
    /\ UNCHANGED <<platform, result, data, problem_files, ei, mi>>
    /\ UNCHANGED <<sig_vars, map_vars>>

\* Lines 68-76: json.loads, and the branch for a JSONDecodeError.
main_parse ==
    /\ pc = "parse"
    /\ LET loads == result.stdout.loads
       IN CASE loads.r = "ok" ->
                 \E r \in Runs(<<print_call>>) :
                    /\ Commit(r)
                    /\ IF r.raised # "none"
                       THEN Raise(r.raised) /\ data' = data
                       ELSE data' = loads.v /\ pc' = "results" /\ exc' = exc
            [] loads.r = "raise" /\ loads.e = "JSONDecodeError" ->
                 \E r \in Runs(<<print_call, print_call, write_log_call(NotJson, "a"),
                                  write_log_call(Excerpt(Slice(result.stdout.text,
                                                               ExcerptLen)), "a")>>) :
                    /\ Commit(r)
                    /\ IF r.raised # "none" THEN Raise(r.raised)
                       ELSE pc' = "done" /\ exc' = exc
                    /\ data' = data
            [] OTHER ->
                 \E r \in Runs(<<print_call>>) :
                    /\ Commit(r)
                    /\ Raise(IF r.raised # "none" THEN r.raised ELSE loads.e)
                    /\ data' = data
    /\ UNCHANGED <<platform, result, problem_files, ei, mi>>
    /\ UNCHANGED <<sig_vars, map_vars>>

\* item['errorCount'] > 0 (line 79): the exception it raises, or "none".
ItemExc(item) ==
    CASE item.t # "obj" -> "TypeError"
      [] item.errorCount.t = "missing" -> "KeyError"
      [] item.errorCount.t # "num" -> "TypeError"
      [] OTHER -> "none"

\* The first exception of the comprehension of line 79, or "none".
RECURSIVE FilterExc(_)
FilterExc(items) ==
    IF items = <<>> THEN "none"
    ELSE IF ItemExc(items[1]) # "none" THEN ItemExc(items[1])
    ELSE FilterExc(Tail(items))

\* [item for item in data if item['errorCount'] > 0]
Keep(item) == item.errorCount.v > 0
ProblemFilter(items) == SelectSeq(items, Keep)

\* list.sort(key=errorCount, reverse=True): a stable sort, so equal keys keep
\* their order; x goes after the last element whose key is >= its own.
\* An insertion that puts x before the elements of equal key.
RECURSIVE InsertBeforeTies(_, _)
InsertBeforeTies(sorted, x) ==
    IF sorted = <<>> THEN <<x>>
    ELSE IF sorted[1].errorCount.v > x.errorCount.v
         THEN <<sorted[1]>> \o InsertBeforeTies(Tail(sorted), x)
         ELSE <<x>> \o sorted

RECURSIVE InsertDesc(_, _)
InsertDesc(sorted, x) ==
    IF sorted = <<>> THEN <<x>>
    ELSE IF sorted[1].errorCount.v >= x.errorCount.v
         THEN <<sorted[1]>> \o InsertDesc(Tail(sorted), x)
         ELSE <<x>> \o sorted

RECURSIVE SortFrom(_, _)
SortFrom(sorted, rest) ==
    IF rest = <<>> THEN sorted
    ELSE SortFrom(InsertDesc(sorted, rest[1]), Tail(rest))

SortDesc(items) == SortFrom(<<>>, items)

\* Lines 78-84: filter, sort, the "Found N files" line.
main_results ==
    /\ pc = "results"
    /\ LET it == Iter(data)
           e == IF it.ok THEN FilterExc(it.items) ELSE "TypeError"
       IN IF e # "none"
          THEN /\ Raise(e)
               /\ UNCHANGED <<log, calls, landed, writable, faults, problem_files, ei>>
          ELSE /\ problem_files' = SortDesc(ProblemFilter(it.items))
               /\ \E r \in Runs(<<print_call, write_log_call(Found(Len(problem_files')), "a")>>) :
                     /\ Commit(r)
                     /\ IF r.raised # "none"
                        THEN Raise(r.raised) /\ ei' = ei
                        ELSE ei' = 1 /\ pc' = "entry" /\ exc' = exc
    /\ UNCHANGED <<platform, result, data, mi>>
    /\ UNCHANGED <<sig_vars, map_vars>>

\* str.split('/')
RECURSIVE SplitFrom(_, _)
SplitFrom(s, cur) ==
    IF s = <<>> THEN <<cur>>
    ELSE IF s[1] = "/" THEN <<cur>> \o SplitFrom(Tail(s), <<>>)
    ELSE SplitFrom(Tail(s), Append(cur, s[1]))
SplitPath(s) == SplitFrom(s, <<>>)

\* os.path.normpath on the components of an absolute path: empty components
\* and "." go, ".." takes the component before it (none at the root).
RECURSIVE NormFrom(_, _)
NormFrom(comps, acc) ==
    IF comps = <<>> THEN acc
    ELSE LET c == comps[1]
         IN IF c = <<>> \/ c = <<".">> THEN NormFrom(Tail(comps), acc)
            ELSE IF c = <<".", ".">>
            THEN NormFrom(Tail(comps),
                          IF acc = <<>> THEN acc ELSE SubSeq(acc, 1, Len(acc) - 1))
            ELSE NormFrom(Tail(comps), Append(acc, c))

\* The components of os.path.abspath(path): a relative path is joined to Cwd.
AbsParts(path) ==
    NormFrom(SplitPath(IF path[1] = "/" THEN path ELSE Cwd \o <<"/">> \o path), <<>>)

\* len(commonprefix([a, b])) on lists of components
RECURSIVE CommonLen(_, _)
CommonLen(a, b) ==
    IF a = <<>> \/ b = <<>> \/ a[1] # b[1] THEN 0
    ELSE 1 + CommonLen(Tail(a), Tail(b))

\* '/'.join(parts)
RECURSIVE JoinParts(_)
JoinParts(parts) ==
    IF parts = <<>> THEN <<>>
    ELSE IF Len(parts) = 1 THEN parts[1]
    ELSE parts[1] \o <<"/">> \o JoinParts(Tail(parts))

\* os.path.relpath(path) for a non-empty path, from the working directory Cwd.
RelPath(path) ==
    LET start_list == AbsParts(Cwd)
        path_list == AbsParts(path)
        i == CommonLen(start_list, path_list)
        rel_list == [k \in 1..(Len(start_list) - i) |-> <<".", ".">>]
                    \o Drop(path_list, i)
    IN IF rel_list = <<>> THEN <<".">> ELSE JoinParts(rel_list)

\* Lines 87-92: the path of the banner; relpath's failure is passed over.
BannerPath(entry) ==
    LET path == Get(entry.filePath, Str(<<"u", "n", "k", "n", "o", "w", "n">>))
    IN IF path.t = "str" /\ path.v # <<>> THEN Str(RelPath(path.v)) ELSE path

\* Lines 86-95 and 103: the banner of the next entry, or the last print.
main_entry ==
    /\ pc = "entry"
    /\ IF ei > Len(problem_files)
       THEN \E r \in Runs(<<print_call>>) :
               /\ Commit(r)
               /\ IF r.raised # "none" THEN Raise(r.raised)
                  ELSE pc' = "done" /\ exc' = exc
               /\ mi' = mi
       ELSE LET entry == problem_files[ei]
            IN \E r \in Runs(<<write_log_call(Banner(BannerPath(entry), entry.errorCount.v), "a")>>) :
                  /\ Commit(r)
                  /\ IF r.raised # "none"
                     THEN Raise(r.raised) /\ mi' = mi
                     ELSE mi' = 1 /\ pc' = "msg" /\ exc' = exc
    /\ UNCHANGED <<platform, result, data, problem_files, ei>>
    /\ UNCHANGED <<sig_vars, map_vars>>

\* msg.get(...) and text.replace (lines 98-100): the exception, or "none".
MsgExc(msg) ==
    IF msg.t # "msg" THEN "AttributeError"
    ELSE IF Get(msg.message, Str(<<>>)).t # "str" THEN "AttributeError"
    ELSE "none"

DiagOf(msg) ==
    Diag(Get(msg.line, Num(0)),
         Get(msg.ruleId, Str(<<"u", "n", "k", "n", "o", "w", "n">>)),
         ReplaceChar(Get(msg.message, Str(<<>>)).v, "\n", " "))

\* Lines 97-101: one diagnostic line, or the end of the entry's messages.
main_message ==
    /\ pc = "msg"
    /\ LET it == Iter(Get(problem_files[ei].messages, List(<<>>)))
       IN CASE ~it.ok ->
                 /\ Raise("TypeError")
                 /\ UNCHANGED <<log, calls, landed, writable, faults, ei, mi>>
            [] it.ok /\ mi > Len(it.items) ->
                 /\ ei' = ei + 1
                 /\ pc' = "entry"
                 /\ UNCHANGED <<log, calls, landed, writable, faults, mi, exc>>
            [] it.ok /\ mi <= Len(it.items) /\ MsgExc(it.items[mi]) # "none" ->
                 /\ Raise(MsgExc(it.items[mi]))
                 /\ UNCHANGED <<log, calls, landed, writable, faults, ei, mi>>
            [] OTHER ->
                 \E r \in Runs(<<write_log_call(DiagOf(it.items[mi]), "a")>>) :
                    /\ Commit(r)
                    /\ IF r.raised # "none"
                       THEN Raise(r.raised) /\ mi' = mi
                       ELSE mi' = mi + 1 /\ UNCHANGED <<pc, exc>>
                    /\ ei' = ei
    /\ UNCHANGED <<platform, result, data, problem_files>>
    /\ UNCHANGED <<sig_vars, map_vars>>

\* Lines 105-107: the handler of the try block.
main_crash ==
    /\ pc = "crash"
    /\ \E r \in Runs(<<print_call, write_log_call(Crash(exc), "a")>>) :
          /\ Commit(r)
          /\ IF r.raised # "none" THEN Propagate(r.raised)
             ELSE pc' = "done" /\ exc' = exc
    /\ UNCHANGED <<platform, result, data, problem_files, ei, mi>>
    /\ UNCHANGED <<sig_vars, map_vars>>

SigIdle ==
    /\ sig_pc = "idle"
    /\ sig_file = <<>>
    /\ sig_out = <<>>

MapIdle ==
    /\ map_pc = "idle"
    /\ map_tree = <<>>
    /\ start_path = <<>>
    /\ walk_stack = <<>>
    /\ output_lines = <<>>
    /\ line_of = <<>>
    /\ visited = {}
    /\ scanned = {}

LintIdle ==
    /\ pc = "idle"
    /\ log = <<>>
    /\ calls = <<>>
    /\ landed = <<>>
    /\ writable = TRUE
    /\ faults = 0
    /\ platform = "posix"
    /\ result = NoResult
    /\ data = NoData
    /\ problem_files = <<>>
    /\ ei = 0
    /\ mi = 0
    /\ exc = "none"

InitLint ==
    /\ pc = "start"
    /\ log \in {<<>>, OldLog}
    /\ calls = <<>>
    /\ landed = <<>>
    /\ writable \in BOOLEAN
    /\ faults = 0
    /\ platform = "posix"
    /\ result = NoResult
    /\ data = NoData
    /\ problem_files = <<>>
    /\ ei = 0
    /\ mi = 0
    /\ exc = "none"
    /\ SigIdle
    /\ MapIdle

NextLint ==
    \/ main_init_log
    \/ main_prepare
    \/ main_run
    \/ main_analyze
    \/ main_parse
    \/ main_results
    \/ main_entry
    \/ main_message
    \/ main_crash

SpecLint == InitLint /\ [][NextLint]_vars

\* ------------------------------------------------ _scanproblem.py: claims

\* No statement of the run has raised so far.
NoneRaised == exc = "none"
\* main has returned and nothing was raised on the way.
Returned == pc = "done" /\ NoneRaised
\* Every write_log call made so far has put its whole chunk into the file.
AllLanded == \A i \in DOMAIN landed : landed[i] = "whole"

CallKinds == {calls[i].content.k : i \in DOMAIN calls}
LastCall == calls[Len(calls)]
StdoutText == result.stdout.text

\* What this run has put into logs.txt and is there in full.
Written(chunk) == chunk.by = "this" /\ ~chunk.part
Report == SelectSeq(log, Written)
ReportKinds == {Report[i].c.k : i \in DOMAIN Report}

\* The contents of the banner calls, and of the banners in the report.
IsBannerCall(call) == call.content.k = "banner"
BannersCalled(cs) ==
    LET found == SelectSeq(cs, IsBannerCall)
    IN [j \in DOMAIN found |-> found[j].content]
IsBanner(chunk) == Written(chunk) /\ chunk.c.k = "banner"
BannersIn(file) ==
    LET found == SelectSeq(file, IsBanner)
    IN [j \in DOMAIN found |-> found[j].c]

\* data is a list whose items all have a number for errorCount.
HasCounts(val) ==
    val.t = "list" /\ \A i \in DOMAIN val.v : ItemExc(val.v[i]) = "none"
CountAt(i) == data.v[i].errorCount.v

\* The banner paths of the records, and per banner the place in data of its
\* record, 0 if there is none.
RECURSIVE PathsOf(_)
PathsOf(records) ==
    IF records = <<>> THEN <<>>
    ELSE <<BannerPath(records[1])>> \o PathsOf(Tail(records))
RECURSIVE PlacesOf(_, _)
PlacesOf(banners, paths) ==
    IF banners = <<>> THEN <<>>
    ELSE <<IF \E i \in DOMAIN paths : paths[i] = banners[1].path
           THEN CHOOSE i \in DOMAIN paths : paths[i] = banners[1].path
           ELSE 0>>
         \o PlacesOf(Tail(banners), paths)

\* The banners are banners of records with errorCount > 0, each with its own
\* count, in descending count order and, among equal counts, in input order.
FilteredSorted(banners, pos) ==
    /\ \A j \in DOMAIN banners :
          /\ pos[j] # 0
          /\ CountAt(pos[j]) > 0
          /\ banners[j].count = CountAt(pos[j])
    /\ \A j, k \in DOMAIN banners :
          j < k =>
             \/ CountAt(pos[j]) > CountAt(pos[k])
             \/ /\ CountAt(pos[j]) = CountAt(pos[k])
                /\ pos[j] < pos[k]

\* Every record with errorCount > 0 has a banner.
AllReported(pos) ==
    \A i \in DOMAIN data.v : CountAt(i) > 0 => \E j \in DOMAIN pos : pos[j] = i

\* C1: in the report in logs.txt, and among the write_log calls main makes, the
\* banners are banners of records with errorCount > 0 only, in descending count
\* order with equal counts in input order, at every moment of every run; once
\* main has returned from a run in which nothing was raised, every record with
\* errorCount > 0 has had its banner call, and its banner is in the report when
\* every write reached the file.
C1_BannersFilteredSorted ==
    HasCounts(data) =>
        LET paths == PathsOf(data.v)
            called == BannersCalled(calls)
            inlog == BannersIn(log)
            cpos == PlacesOf(called, paths)
            lpos == PlacesOf(inlog, paths)
        IN /\ FilteredSorted(called, cpos)
           /\ FilteredSorted(inlog, lpos)
           /\ Returned => AllReported(cpos)
           /\ (Returned /\ AllLanded) => (AllReported(lpos) /\ inlog = called)

\* The spec's example: counts [3, 0, 7, 1] are reported as [7, 3, 1].
C1_Witness ==
    /\ Returned
    /\ AllLanded
    /\ data = RecordsOf(SpecExample)
    /\ LET inlog == BannersIn(log)
       IN [j \in DOMAIN inlog |-> inlog[j].count] = <<7, 3, 1>>

\* Two records of equal count reported in input order, after a larger one.
C1_WitnessTie ==
    /\ Returned
    /\ AllLanded
    /\ data = RecordsOf(TieExample)
    /\ PlacesOf(BannersIn(log), PathsOf(data.v)) = <<2, 1, 3>>

\* The calls main makes after the header, the location and the command.
Later == Drop(calls, CHOOSE i \in DOMAIN calls : calls[i].content.k = "command")

\* The last n chunks of the file.
TailOf(file, n) == SubSeq(file, Len(file) - n + 1, Len(file))

\* C2: with an empty stdout nothing is parsed and no "Found", banner, diagnostic
\* or "not valid JSON" line is ever called for or written, whatever the exit
\* code and stderr; when main has returned from a run in which nothing was
\* raised, its calls after the command line are the stderr block (if stderr was
\* not empty) and the "empty output" line, and these are the end of logs.txt
\* when every write reached the file.  With a non-empty stdout no "empty output"
\* line is written, and a run in which nothing was raised logs a non-empty
\* stderr and goes on to parse.
C2_EmptyOutputStops ==
    result # NoResult =>
        /\ Len(StdoutText) = 0 =>
              /\ data = NoData
              /\ CallKinds \cap {"found", "banner", "diag", "notjson", "excerpt"} = {}
              /\ ReportKinds \cap {"found", "banner", "diag", "notjson", "excerpt"} = {}
              /\ NoneRaised => pc \in {"analyze", "done"}
              /\ Returned =>
                    LET expected == (IF Len(result.stderr) > 0
                                     THEN <<StderrBlock(result.stderr)>> ELSE <<>>)
                                    \o <<EmptyError>>
                    IN /\ Later = [i \in DOMAIN expected |-> Call(expected[i], "a")]
                       /\ AllLanded =>
                             TailOf(log, Len(expected))
                               = [i \in DOMAIN expected |-> Chunk("this", expected[i])]
        /\ Len(StdoutText) > 0 =>
              /\ "empty" \notin CallKinds
              /\ "empty" \notin ReportKinds
              /\ (Len(result.stderr) > 0 /\ NoneRaised /\ pc # "analyze") =>
                    /\ Later[1] = Call(StderrBlock(result.stderr), "a")
                    /\ \/ pc = "parse"
                       \/ data # NoData
                       \/ "notjson" \in CallKinds

\* npx is not installed: exit code 127, a message on stderr, nothing on stdout.
C2_Witness ==
    /\ Returned
    /\ AllLanded
    /\ Len(StdoutText) = 0
    /\ Len(result.stderr) > 0
    /\ result.returncode = 127
    /\ log[Len(log)] = Chunk("this", EmptyError)
    /\ log[Len(log) - 1] = Chunk("this", StderrBlock(result.stderr))

\* C3: in a run in which no print and no write fails, once main is over on a
\* non-empty stdout that is not valid JSON, it has returned without raising, its
\* last two calls are the "not valid JSON" record and the first 500 characters
\* of stdout (all of it if shorter), and no "Found", banner or diagnostic line
\* was written.
C3_InvalidJsonExcerpt ==
    (/\ pc \in {"done", "propagated"}
     /\ faults = 0
     /\ writable
     /\ result # NoResult
     /\ Len(StdoutText) > 0
     /\ ~result.stdout.valid) =>
        /\ pc = "done"
        /\ exc = "none"
        /\ data = NoData
        /\ Len(calls) >= 2
        /\ calls[Len(calls) - 1] = Call(NotJson, "a")
        /\ LastCall = Call(Excerpt(SubSeq(StdoutText, 1, Min(ExcerptLen, Len(StdoutText)))), "a")
        /\ TailOf(log, 2) = <<Chunk("this", NotJson), Chunk("this", LastCall.content)>>
        /\ CallKinds \cap {"found", "banner", "diag", "empty", "crash"} = {}

\* What the calls of this run have put into the file, in call order.
IsKept(i) == landed[i] # "none"
Kept ==
    LET at == SelectSeq([i \in DOMAIN calls |-> i], IsKept)
    IN [j \in DOMAIN at |->
           IF landed[at[j]] = "whole"
           THEN Chunk("this", calls[at[j]].content)
           ELSE Fragment("this", calls[at[j]].content)]

\* C4 as claimed: once a run has made its first write_log call, the file holds
\* chunks of this run only and begins with the header line, whatever became of
\* the calls.
C4_AlwaysFresh ==
    calls # <<>> =>
        /\ \A i \in DOMAIN log : log[i].by = "this"
        /\ log # <<>>
        /\ log[1] = Chunk("this", Title)

\* C4 amended: the first write_log call of a run is write_log(header, 'w') and
\* every later call appends.  The file then holds, in call order, what the calls
\* of this run put into it: the whole chunk of a call that succeeded, a fragment
\* of the chunk of a call whose write failed part-way, nothing of a call that
\* failed before it wrote.  When the first call opened the file, that is all the
\* file holds, beginning with the header line or a fragment of it; when the
\* first call put nothing into the file, the file holds the later chunks either
\* alone (open truncated, or the file was empty) or after the earlier run's
\* content (open failed).  A run that ends before its first call leaves the file
\* as it was.
C4_FreshWhenHeaderWritten ==
    /\ (pc # "start" /\ calls = <<>>) => (pc = "propagated" /\ log \in {<<>>, OldLog})
    /\ calls # <<>> =>
          LET kept == Kept
          IN /\ calls[1] = Call(Title, "w")
             /\ \A i \in DOMAIN calls : i > 1 => calls[i].mode = "a"
             /\ landed[1] = "whole" =>
                   /\ log = kept
                   /\ log[1] = Chunk("this", Title)
             /\ landed[1] = "part" =>
                   /\ log = kept
                   /\ log[1] = Fragment("this", Title)
             /\ landed[1] # "none" => \A i \in DOMAIN log : log[i].by = "this"
             /\ landed[1] = "none" => log \in {kept, OldLog \o kept}

\* A run whose header was written and whose disk filled up in the middle of a
\* later write: that call left a fragment, the calls after it nothing, the
\* banners among them.
C4_Witness ==
    /\ Returned
    /\ landed[1] = "whole"
    /\ log[1] = Chunk("this", Title)
    /\ \E i \in DOMAIN landed :
          /\ landed[i] = "part"
          /\ log[Len(log)] = Fragment("this", calls[i].content)
          /\ Len(log) = i
          /\ \E j, k \in DOMAIN landed :
                /\ i < j /\ j < k
                /\ landed[j] = "none" /\ landed[k] = "none"
                /\ calls[k].content.k = "banner"

\* C5: no exception leaves main.  One raised at any point of the run takes main
\* to the handler, whose write_log call appends the CRITICAL SCRIPT CRASH record
\* naming it, and main returns; until it has returned main can always go on.
C5_NoExceptionPropagates ==
    /\ pc # "propagated"
    /\ exc # "none" => pc \in {"crash", "done"}
    /\ (pc = "done" /\ exc # "none") =>
          /\ LastCall = Call(Crash(exc), "a")
          /\ landed[Len(landed)] = "whole" => log[Len(log)] = Chunk("this", Crash(exc))
    /\ (pc = "done" /\ exc = "none") => "crash" \notin CallKinds
    /\ pc # "done" => ENABLED NextLint

\* ------------------------------------------------- aa.py: get_signatures

\* Line 19.
MAX_SIGNATURES == 10

\* The content of a file is the sequence of the declarations in it, in text
\* order; each is what one of the five patterns of lines 33-56 matches, with the
\* name the pattern captures:
\*   "class"      class\s+(\w+)
\*   "function"   (?:async\s+)?function\s+(\w+)\s*\(
\*   "arrow"      (?:const|let|var)\s+(\w+)\s*=\s*(?:async\s*)?\(.*?\)\s*=>
\*   "exports"    (?:module\.)?exports\.(\w+)\s*=
\*   "interface"  interface\s+(\w+)
Decl(rule, name) == [rule |-> rule, name |-> name]

\* re.findall(pattern, content): the captured names, in text order.
FindAll(rule, content) ==
    LET Hit(d) == d.rule = rule
        hits == SelectSeq(content, Hit)
    IN [i \in DOMAIN hits |-> hits[i].name]

\* f"Class: {c}" and the like.
Label(tag, name) == [tag |-> tag, name |-> name]
Labels(tag, names) == [i \in DOMAIN names |-> Label(tag, names[i])]
\* f"...(+{k} more)"
More(k) == [tag |-> "more", k |-> k]

\* Lines 33-58: sigs after the five loops.
Collected(content) ==
    Labels("Class", FindAll("class", content))
    \o Labels("f", FindAll("function", content))
    \o Labels("f", FindAll("arrow", content))
    \o Labels("Export", FindAll("exports", content))
    \o Labels("Interface", FindAll("interface", content))

\* A list that keeps its duplicates.
KeepAll(sigs) == sigs

\* list(dict.fromkeys(sigs)): the first occurrence of each label, in order.
Unique(sigs) ==
    LET First(i) == \A j \in 1..(i - 1) : sigs[j] # sigs[i]
        idx == {i \in DOMAIN sigs : First(i)}
        RECURSIVE Pick(_)
        Pick(i) == IF i > Len(sigs) THEN <<>>
                   ELSE (IF i \in idx THEN <<sigs[i]>> ELSE <<>>) \o Pick(i + 1)
    IN Pick(1)

\* A cut that already applies to a list of exactly MAX_SIGNATURES labels.
TruncateFromMax(unique_sigs) ==
    IF Len(unique_sigs) >= MAX_SIGNATURES
    THEN SubSeq(unique_sigs, 1, MAX_SIGNATURES)
         \o <<More(Len(unique_sigs) - MAX_SIGNATURES)>>
    ELSE unique_sigs

\* Lines 66-69.
Truncate(unique_sigs) ==
    IF Len(unique_sigs) > MAX_SIGNATURES
    THEN SubSeq(unique_sigs, 1, MAX_SIGNATURES)
         \o <<More(Len(unique_sigs) - MAX_SIGNATURES)>>
    ELSE unique_sigs

\* A file on disk: its name, its content, and whether open() or read() fails
\* on it ("none", "open", "read").
File(name, fail, content) == [name |-> name, fail |-> fail, content |-> content]

\* A handler that returns what it has instead of [].
get_signatures_keeps_labels(file) == Truncate(Unique(Collected(file.content)))

\* Lines 22-69.  open() and read() are the calls of the try block that raise,
\* and both come before the first label is appended.
get_signatures(file) ==
    IF file.fail # "none" THEN <<>>
    ELSE Truncate(Unique(Collected(file.content)))

\* Names are numbered: name k stands for an identifier.
\* n declarations named 1..n by one rule, then the first dup of them again.
Run(rule, n, dup) == [i \in 1..(n + dup) |-> Decl(rule, IF i <= n THEN i ELSE i - n)]

OtherRuns(rule) == {Run(rule, n, 0) : n \in 0..MaxOthers}

\* The classes in text order first or last: the labels follow the rules' order.
SigContents ==
    {IF classes_first THEN c \o f \o a \o e \o i ELSE i \o e \o a \o f \o c :
        classes_first \in BOOLEAN,
        c \in {Run("class", n, dup) : n \in 0..MaxClasses, dup \in {0, 1}},
        f \in {Run("function", n, dup) : n \in 0..MaxOthers, dup \in {0, 1}},
        a \in OtherRuns("arrow"),
        e \in OtherRuns("exports"),
        i \in OtherRuns("interface")}

SigFiles == {File(<<"a", ".", "j", "s">>, fail, c) :
                fail \in {"none", "open", "read"}, c \in SigContents}

get_signatures_call ==
    /\ sig_pc = "call"
    /\ sig_out' = get_signatures(sig_file)
    /\ sig_pc' = "returned"
    /\ UNCHANGED sig_file
    /\ UNCHANGED <<lint_vars, map_vars>>

InitSig ==
    /\ sig_pc = "call"
    /\ sig_file \in SigFiles
    /\ sig_out = <<>>
    /\ LintIdle
    /\ MapIdle

NextSig == get_signatures_call

SpecSig == InitSig /\ [][NextSig]_vars

\* ------------------------------------------------- get_signatures: claims

ClassNamesIn(content) ==
    {content[i].name : i \in {j \in DOMAIN content : content[j].rule = "class"}}
Occurrences(label) == Cardinality({i \in DOMAIN sig_out : sig_out[i] = label})

\* The place in seq of the first occurrence of x.
FirstIn(seq, x) ==
    CHOOSE i \in DOMAIN seq : seq[i] = x /\ \A j \in 1..(i - 1) : seq[j] # x

\* How many distinct class names are first declared at or before the first
\* declaration of class x.
ClassRank(content, x) ==
    Cardinality({y \in ClassNamesIn(content) :
                    FirstIn(content, Decl("class", y)) <= FirstIn(content, Decl("class", x))})

\* C6 as claimed: every class declared in a file that was read has exactly one
\* "Class: X" entry in the result.
C6_ExactlyOnePerClass ==
    (sig_pc = "returned" /\ sig_file.fail = "none") =>
        \A x \in ClassNamesIn(sig_file.content) : Occurrences(Label("Class", x)) = 1

\* C6 amended: "Class: X" is in the result at most once; exactly once when X is
\* among the first MAX_SIGNATURES distinct class names of the text, and not at
\* all when it comes later (the marker counts it).
C6_OncePerClassWithinMax ==
    (sig_pc = "returned" /\ sig_file.fail = "none") =>
        \A x \in ClassNamesIn(sig_file.content) :
            Occurrences(Label("Class", x))
                = (IF ClassRank(sig_file.content, x) <= MAX_SIGNATURES THEN 1 ELSE 0)

\* A class declared twice and listed once, among other signatures.
C6_Witness ==
    /\ sig_pc = "returned"
    /\ sig_file.fail = "none"
    /\ Cardinality({i \in DOMAIN sig_file.content : sig_file.content[i] = Decl("class", 1)}) = 2
    /\ Occurrences(Label("Class", 1)) = 1
    /\ Len(sig_out) > 1

\* labels are in the order in which col first holds them.
InFirstSeenOrder(col, labels) ==
    \A i, j \in DOMAIN labels : i < j => FirstIn(col, labels[i]) < FirstIn(col, labels[j])

\* C7: with n distinct labels, n > MAX_SIGNATURES, the result is the first
\* MAX_SIGNATURES of them in first-seen order and then the marker for the
\* n - MAX_SIGNATURES others; with n <= MAX_SIGNATURES it is the n labels in
\* first-seen order and no marker.
C7_TruncationWithMarker ==
    (sig_pc = "returned" /\ sig_file.fail = "none") =>
        LET col == Collected(sig_file.content)
            labelset == {col[i] : i \in DOMAIN col}
            n == Cardinality(labelset)
        IN IF n > MAX_SIGNATURES
           THEN /\ Len(sig_out) = MAX_SIGNATURES + 1
                /\ sig_out[MAX_SIGNATURES + 1] = More(n - MAX_SIGNATURES)
                /\ \A i \in 1..MAX_SIGNATURES : sig_out[i] \in labelset
                /\ InFirstSeenOrder(col, SubSeq(sig_out, 1, MAX_SIGNATURES))
                /\ \A l \in labelset :
                      (\E i \in 1..MAX_SIGNATURES : sig_out[i] = l)
                      \/ FirstIn(col, l) > FirstIn(col, sig_out[MAX_SIGNATURES])
           ELSE /\ Len(sig_out) = n
                /\ {sig_out[i] : i \in DOMAIN sig_out} = labelset
                /\ InFirstSeenOrder(col, sig_out)

\* Twelve distinct labels, one of them collected twice: ten listed, "+2 more".
C7_Witness ==
    /\ sig_pc = "returned"
    /\ sig_file.fail = "none"
    /\ LET col == Collected(sig_file.content)
       IN /\ Cardinality({col[i] : i \in DOMAIN col}) = MAX_SIGNATURES + 2
          /\ Len(col) > MAX_SIGNATURES + 2
    /\ Len(sig_out) = MAX_SIGNATURES + 1
    /\ sig_out[MAX_SIGNATURES + 1] = More(2)

\* --------------------------------------------------- aa.py: generate_map

\* Lines 6-16.
IGNORE_DIRS == {
    <<"n", "o", "d", "e", "_", "m", "o", "d", "u", "l", "e", "s">>,
    <<".", "g", "i", "t">>,
    <<"d", "i", "s", "t">>,
    <<"b", "u", "i", "l", "d">>,
    <<"c", "o", "v", "e", "r", "a", "g", "e">>,
    <<".", "n", "e", "x", "t">>,
    <<".", "v", "s", "c", "o", "d", "e">>,
    <<"_", "_", "p", "y", "c", "a", "c", "h", "e", "_", "_">>,
    <<".", "a", "i", "d", "e", "r", ".", "t", "a", "g", "s", ".", "c", "a", "c", "h", "e", ".", "v", "4">>,
    <<".", "q", "o", "d", "o">>
}
IGNORE_FILES == {
    <<"p", "a", "c", "k", "a", "g", "e", "-", "l", "o", "c", "k", ".", "j", "s", "o", "n">>,
    <<"y", "a", "r", "n", ".", "l", "o", "c", "k">>,
    <<"p", "n", "p", "m", "-", "l", "o", "c", "k", ".", "y", "a", "m", "l">>,
    <<".", "D", "S", "_", "S", "t", "o", "r", "e">>,
    <<".", "e", "n", "v">>,
    <<".", "e", "n", "v", ".", "l", "o", "c", "a", "l">>,
    <<".", "a", "i", "d", "e", "r", ".", "c", "h", "a", "t", ".", "h", "i", "s", "t", "o", "r", "y", ".", "m", "d">>,
    <<".", "a", "i", "d", "e", "r", ".", "i", "n", "p", "u", "t", ".", "h", "i", "s", "t", "o", "r", "y">>,
    <<".", "g", "i", "t", "i", "g", "n", "o", "r", "e">>,
    <<".", "l", "l", "m", "i", "g", "n", "o", "r", "e">>
}
CODE_EXTENSIONS == {
    <<".", "j", "s">>,
    <<".", "j", "s", "x">>,
    <<".", "t", "s">>,
    <<".", "t", "s", "x">>,
    <<".", "m", "j", "s">>,
    <<".", "c", "j", "s">>
}

Sep == "/"

\* s.count(ch)
Count(s, ch) == Cardinality({i \in DOMAIN s : s[i] = ch})

\* s.replace(old, ""), old not empty: the occurrences of old are taken out from
\* the left, without overlap.
RECURSIVE Remove(_, _)
Remove(s, old) ==
    IF Len(s) < Len(old) THEN s
    ELSE IF StartsWith(s, old) THEN Remove(Drop(s, Len(old)), old)
    ELSE <<s[1]>> \o Remove(Tail(s), old)

\* The largest i with s[i] = ch, or 0.
LastIndex(s, ch) ==
    IF \E i \in DOMAIN s : s[i] = ch
    THEN CHOOSE i \in DOMAIN s : s[i] = ch /\ \A j \in (i + 1)..Len(s) : s[j] # ch
    ELSE 0

\* os.path.basename(path)
BaseName(path) == Drop(path, LastIndex(path, Sep))

\* os.path.join(root, name), for a name that is no absolute path
Join(root, name) ==
    IF root = <<>> \/ root[Len(root)] = Sep THEN root \o name ELSE root \o <<Sep>> \o name

\* os.path.splitext(f)[1]: from the last dot, unless only dots come before it.
Ext(f) ==
    LET dot == LastIndex(f, ".")
        base == LastIndex(f, Sep)
    IN IF dot > base /\ \E i \in (base + 1)..(dot - 1) : f[i] # "."
       THEN Drop(f, dot - 1)
       ELSE <<>>

\* The lines of the map (lines 83, 85, 101, 103, 105): the directory marker with
\* its indent and name, the file marker with its indent, name and signatures.
RootLine == [kind |-> "root", indent |-> 0, name |-> <<>>, sigs |-> <<>>]
DirLine(indent, folder_name) ==
    [kind |-> "dir", indent |-> indent, name |-> folder_name, sigs |-> <<>>]
FileLine(indent, f, sigs) ==
    [kind |-> "file", indent |-> indent, name |-> f, sigs |-> sigs]

\* A directory on disk: its name, its files and its subdirectories, in the
\* order os.scandir lists them.
Dir(name, files, dirs) == [name |-> name, files |-> files, dirs |-> dirs]

\* A walk that descends into every directory.
KeepAllDirs(dirs) == dirs

\* Line 75: dirs[:] = [d for d in dirs if d not in IGNORE_DIRS]
PruneDirs(dirs) ==
    LET NotIgnored(d) == d.name \notin IGNORE_DIRS
    IN SelectSeq(dirs, NotIgnored)

\* Line 77: level = root.replace(start_path, '').count(os.sep)
Level(root, start) == Count(Remove(root, start), Sep)

\* Lines 89-105 for one file: no line for an ignored file, else its line.
FileLines(subindent, file) ==
    IF file.name \in IGNORE_FILES THEN <<>>
    ELSE IF Ext(file.name) \in CODE_EXTENSIONS
         THEN <<FileLine(subindent, file.name, get_signatures(file))>>
         ELSE <<FileLine(subindent, file.name, <<>>)>>

RECURSIVE AllFileLines(_, _)
AllFileLines(subindent, files) ==
    IF files = <<>> THEN <<>>
    ELSE FileLines(subindent, files[1]) \o AllFileLines(subindent, Tail(files))

\* What os.walk holds of a directory it has yet to yield: the path it will be
\* yielded under, the directory, and the names of the directories from the
\* start directory down to it.
Pending(path, dir, above) == [path |-> path, dir |-> dir, above |-> above]

\* A node of the tree: its path, "dir" or "file", the names of the directories
\* from the start directory down to it (a directory) or to the directory that
\* holds it (a file), and the file itself.
Node(path, kind, above, file) == [path |-> path, kind |-> kind, above |-> above, file |-> file]
NoFile == File(<<>>, "none", <<>>)

\* Lines 74-105: one iteration of the loop over os.walk(start_path).
generate_map_visit ==
    /\ map_pc = "walk"
    /\ walk_stack # <<>>
    /\ LET top == Head(walk_stack)
           root == top.path
           dirs == PruneDirs(top.dir.dirs)
           files == top.dir.files
           level == Level(root, start_path)
           indent == 4 * level
           folder_name == BaseName(root)
           subindent == 4 * (level + 1)
           shown == SelectSeq(files, LAMBDA f : f.name \notin IGNORE_FILES)
           coded == {i \in DOMAIN shown : Ext(shown[i].name) \in CODE_EXTENSIONS}
       IN /\ output_lines' =
                output_lines
                \o <<IF level = 0 THEN RootLine ELSE DirLine(indent, folder_name)>>
                \o AllFileLines(subindent, files)
          /\ line_of' =
                line_of
                \o <<Node(root, "dir", top.above, NoFile)>>
                \o [i \in DOMAIN shown |->
                       Node(Join(root, shown[i].name), "file", top.above, shown[i])]
          /\ visited' =
                visited \cup {Node(root, "dir", top.above, NoFile)}
                \cup {Node(Join(root, files[i].name), "file", top.above, files[i]) :
                         i \in DOMAIN files}
          /\ scanned' =
                scanned \cup {Node(Join(root, shown[i].name), "file", top.above, shown[i]) :
                                 i \in coded}
          /\ walk_stack' =
                [i \in DOMAIN dirs |->
                    Pending(Join(root, dirs[i].name), dirs[i],
                            Append(top.above, dirs[i].name))]
                \o Tail(walk_stack)
    /\ UNCHANGED <<map_pc, map_tree, start_path>>
    /\ UNCHANGED <<lint_vars, sig_vars>>

\* Line 107: the walk is over.
generate_map_return ==
    /\ map_pc = "walk"
    /\ walk_stack = <<>>
    /\ map_pc' = "returned"
    /\ UNCHANGED <<map_tree, start_path, walk_stack, output_lines, line_of, visited, scanned>>
    /\ UNCHANGED <<lint_vars, sig_vars>>

\* ---------------------------------------------------- generate_map: inputs

A_JS == File(<<"a", ".", "j", "s">>, "none",
             <<Decl("function", 1), Decl("class", 1), Decl("class", 1)>>)
U_TS == File(<<"u", ".", "t", "s">>, "read", <<Decl("class", 2)>>)
ENV == File(<<".", "e", "n", "v">>, "none", <<>>)
README == File(<<"r", ".", "m", "d">>, "none", <<>>)
FileLists == {<<A_JS, ENV, README>>, <<U_TS, A_JS>>}

GIT == <<".", "g", "i", "t">>
NODE_MODULES == <<"n", "o", "d", "e", "_", "m", "o", "d", "u", "l", "e", "s">>
\* A directory may hold .git (with a file) ahead of its one other subdirectory.
Siblings == {<<>>, <<Dir(GIT, <<A_JS>>, <<>>)>>}
ChildNames == {<<"p">>, <<"d">>, NODE_MODULES}

\* What a directory can hold when at most depth levels lie below it.
RECURSIVE DirContents(_)
DirContents(depth) ==
    {[files |-> f, dirs |-> sib] : f \in FileLists, sib \in Siblings}
    \cup (IF depth = 0 THEN {}
          ELSE {[files |-> f, dirs |-> sib \o <<Dir(n, c.files, c.dirs)>>] :
                   f \in FileLists, sib \in Siblings, n \in ChildNames,
                   c \in DirContents(depth - 1)})

StartPaths == {<<"/", "p">>, <<"/", "w", "/", "p">>, <<"/", "w", "/", "n", "o", "d", "e", "_", "m", "o", "d", "u", "l", "e", "s">>, <<"/">>}

InitMap ==
    /\ map_pc = "walk"
    /\ start_path \in StartPaths
    /\ \E c \in DirContents(MaxDepth) : map_tree = Dir(BaseName(start_path), c.files, c.dirs)
    /\ walk_stack = <<Pending(start_path, map_tree, <<BaseName(start_path)>>)>>
    /\ output_lines = <<>>
    /\ line_of = <<>>
    /\ visited = {}
    /\ scanned = {}
    /\ LintIdle
    /\ SigIdle

NextMap ==
    \/ generate_map_visit
    \/ generate_map_return

SpecMap == InitMap /\ [][NextMap]_vars

\* ---------------------------------------------------- generate_map: claims

Last(seq) == seq[Len(seq)]
\* The depth below the start directory of a directory node, or of the
\* directory that holds a file node.
DirDepth(node) == Len(node.above) - 1
Lines == DOMAIN output_lines
Touched == visited \cup scanned \cup {line_of[i] : i \in DOMAIN line_of}

\* C8 as claimed: no directory named in IGNORE_DIRS, the start directory
\* included, gets a line, and nothing in or below one is visited, rendered or
\* scanned.
C8_NoIgnoredAnywhere ==
    \A node \in Touched : \A k \in DOMAIN node.above : node.above[k] \notin IGNORE_DIRS

\* C8 amended: the same for every directory below the start directory; the
\* start directory itself is walked whatever its name.
C8_NoIgnoredBelowStart ==
    \A node \in Touched :
        \A k \in DOMAIN node.above : k > 1 => node.above[k] \notin IGNORE_DIRS

\* The tree holds node_modules, with files and a subdirectory, two levels down
\* beside nothing else, and .git one level down; the walk is over and has
\* rendered the directory that holds node_modules.
C8_Witness ==
    /\ map_pc = "returned"
    /\ BaseName(start_path) \notin IGNORE_DIRS
    /\ \E i \in DOMAIN map_tree.dirs :
          /\ map_tree.dirs[i].name \notin IGNORE_DIRS
          /\ \E j \in DOMAIN map_tree.dirs[i].dirs :
                /\ map_tree.dirs[i].dirs[j].name = NODE_MODULES
                /\ map_tree.dirs[i].dirs[j].files # <<>>
                /\ map_tree.dirs[i].dirs[j].dirs # <<>>
          /\ \E node \in visited :
                node.kind = "dir" /\ node.above = <<map_tree.name, map_tree.dirs[i].name>>
    /\ \E i \in DOMAIN map_tree.dirs : map_tree.dirs[i].name = GIT
    /\ Len(output_lines) > 1

\* C9: one line is the root marker, the start directory's; a directory d >= 1
\* levels below has its name at indent 4*d; a file in a directory d levels below
\* has indent 4*(d+1).
C9_IndentFollowsDepth ==
    \A i \in Lines :
        LET node == line_of[i]
            line == output_lines[i]
            d == DirDepth(node)
        IN /\ (line.kind = "root") = (node.kind = "dir" /\ d = 0)
           /\ (node.kind = "dir" /\ d >= 1) =>
                 /\ line.kind = "dir"
                 /\ line.name = Last(node.above)
                 /\ line.indent = 4 * d
           /\ node.kind = "file" =>
                 /\ line.kind = "file"
                 /\ line.indent = 4 * (d + 1)

IsCode(file) == Ext(file.name) \in CODE_EXTENSIONS

\* The directories and files generate_map has to render: a directory, its files
\* not in IGNORE_FILES, and the same of its subdirectories not in IGNORE_DIRS.
RECURSIVE ToRender(_)
ToRender(dir) ==
    LET subs == {i \in DOMAIN dir.dirs : dir.dirs[i].name \notin IGNORE_DIRS}
        RECURSIVE Sum(_)
        Sum(S) == IF S = {} THEN 0
                  ELSE LET i == CHOOSE x \in S : TRUE
                       IN ToRender(dir.dirs[i]) + Sum(S \ {i})
    IN 1 + Cardinality({i \in DOMAIN dir.files : dir.files[i].name \notin IGNORE_FILES})
         + Sum(subs)

\* C10: a code file whose open() or read() fails has a line with its name only;
\* every other file has the line its own name and content give, whether or not a
\* file before it failed; and when the walk is over every directory and file to
\* render has its one line.
C10_ReadFailureIsLocal ==
    /\ \A i \in Lines :
          LET node == line_of[i]
              line == output_lines[i]
          IN node.kind = "file" =>
                /\ line.name = node.file.name
                /\ (IsCode(node.file) /\ node.file.fail # "none") => line.sigs = <<>>
                /\ (IsCode(node.file) /\ node.file.fail = "none") =>
                      line.sigs = Truncate(Unique(Collected(node.file.content)))
                /\ ~IsCode(node.file) => line.sigs = <<>>
    /\ Len(line_of) = Len(output_lines)
    /\ \A i, j \in Lines : i # j => line_of[i].path # line_of[j].path
    /\ map_pc = "returned" => Len(output_lines) = ToRender(map_tree)

\* The walk is over; a file that could not be read has its bare line, and after
\* it come the line of a file with its signatures and the line of a directory.
C10_Witness ==
    /\ map_pc = "returned"
    /\ \E i, j, k \in Lines :
          /\ i < j /\ j < k
          /\ line_of[i].file.fail = "read"
          /\ output_lines[i].kind = "file"
          /\ output_lines[i].sigs = <<>>
          /\ output_lines[j].sigs = <<Label("Class", 1), Label("f", 1)>>
          /\ line_of[k].kind = "dir"

====
